---- MODULE Spec2Model ----
(***************************************************************************)
(* A model of pqc.py: the lattice operator factory, the disordered SSH     *)
(* Hamiltonian builder, the inverse participation ratio, the projective    *)
(* measurement simulator, the holographic qudit transforms and the         *)
(* plaquette-flux Chern number.                                            *)
(*                                                                         *)
(* Numbers are exact.  A complex rational is a record [re, im, den] in     *)
(* lowest terms with den > 0; operators are kept as sums of tensor products.  The global     *)
(* numpy generator seeded at line 29 is a fixed but unknown stream of      *)
(* uniform draws (rngStream) with a read position (rngPos): Init chooses   *)
(* the stream, so every sequence of draws is covered, and a run reads it   *)
(* in order.                                                               *)
(***************************************************************************)
EXTENDS Integers, Sequences, FiniteSets, TLC

VARIABLES
    rngStream,  \* the stream of draws of the seeded generator
    rngPos,     \* per run, the number of draws made so far
    rho,        \* the density matrix the script measures
    inp,        \* the arguments of the call of a pure function
    out         \* per run, the last call made and what it returned

vars == <<rngStream, rngPos, rho, inp, out>>

(***************************************************************************)
(* Bounds of the model.                                                    *)
(***************************************************************************)
\* Lattice sizes N range over 0..MaxN (1..MaxN for the builder).
MaxN == 3
\* The generator's draws are k/RDen, k in 0..RDen-1: a grid on [0,1).
RDen == 2
\* Length of the modelled prefix of the generator's stream.
MaxDraws == 2

\* The two runs of the program compared for reproducibility.
Runs == {1, 2}

(***************************************************************************)
(* Exact arithmetic.                                                       *)
(***************************************************************************)
Abs(x) == IF x < 0 THEN -x ELSE x

RECURSIVE Gcd(_, _)
Gcd(a, b) == IF b = 0 THEN Abs(a) ELSE Gcd(b, a % b)

\* The complex rational (re + i*im)/den in lowest terms, den > 0.
CQ(re, im, den) ==
    LET s == IF den < 0 THEN -1 ELSE 1
        g == Gcd(Gcd(Abs(re), Abs(im)), Abs(den))
    IN  [re |-> (s * re) \div g, im |-> (s * im) \div g, den |-> (s * den) \div g]

CZero == [re |-> 0, im |-> 0, den |-> 1]
COne == [re |-> 1, im |-> 0, den |-> 1]
CInt(n) == [re |-> n, im |-> 0, den |-> 1]

CAdd(x, y) == CQ(x.re * y.den + y.re * x.den, x.im * y.den + y.im * x.den, x.den * y.den)
CMul(x, y) == CQ(x.re * y.re - x.im * y.im, x.re * y.im + x.im * y.re, x.den * y.den)
\* np.conjugate
CConj(x) == [re |-> x.re, im |-> -x.im, den |-> x.den]

RECURSIVE CSum(_, _)
\* Sum of f[1..n].
CSum(f, n) == IF n = 0 THEN CZero ELSE CAdd(CSum(f, n - 1), f[n])

RECURSIVE Pow2(_)
Pow2(n) == IF n = 0 THEN 1 ELSE 2 * Pow2(n - 1)

(***************************************************************************)
(* Operators.  A single-site operator is a 2x2 integer matrix in the basis *)
(* (|0>, |1>).  An operator on the N-site space (a Qobj) is kept in        *)
(* factored form: a sequence of terms [c, f], each standing for the        *)
(* complex rational c times the tensor product f[1] (x) ... (x) f[N]       *)
(* (f[1] the leftmost factor), the sequence standing for their sum.        *)
(***************************************************************************)
\* qt.qeye(2), qt.destroy(2), qt.create(2), qt.num(2)
qeye2 == <<<<1, 0>>, <<0, 1>>>>
destroy2 == <<<<0, 1>>, <<0, 0>>>>
create2 == <<<<0, 0>>, <<1, 0>>>>
num2 == <<<<0, 0>>, <<0, 1>>>>
\* qt.basis(2,1) * qt.basis(2,1).dag()
proj1 == <<<<0, 0>>, <<0, 1>>>>

\* The product of two single-site operators.
Mul2(A, B) ==
    <<<<A[1][1] * B[1][1] + A[1][2] * B[2][1], A[1][1] * B[1][2] + A[1][2] * B[2][2]>>,
      <<A[2][1] * B[1][1] + A[2][2] * B[2][1], A[2][1] * B[1][2] + A[2][2] * B[2][2]>>>>
\* The transpose of a (real) single-site operator.
Dag2(A) == <<<<A[1][1], A[2][1]>>, <<A[1][2], A[2][2]>>>>

\* qt.tensor(op_list)
tensor(op_list) == <<[c |-> COne, f |-> op_list]>>

\* The term (a.c * b.c) * (a.f[1] b.f[1]) (x) ... (x) (a.f[N] b.f[N]).
TermMul(a, b) ==
    [c |-> CMul(a.c, b.c), f |-> [s \in 1..Len(a.f) |-> Mul2(a.f[s], b.f[s])]]

RECURSIVE QMulRow(_, _, _)
QMulRow(a, B, n) == IF n = 0 THEN <<>> ELSE Append(QMulRow(a, B, n - 1), TermMul(a, B[n]))
RECURSIVE QMulTo(_, _, _)
QMulTo(A, B, n) ==
    IF n = 0 THEN <<>> ELSE QMulTo(A, B, n - 1) \o QMulRow(A[n], B, Len(B))
\* A * B
QMul(A, B) == QMulTo(A, B, Len(A))
\* c * A
QScale(c, A) == [k \in 1..Len(A) |-> [c |-> CMul(c, A[k].c), f |-> A[k].f]]
\* A + B
QAdd(A, B) == A \o B
\* A.dag()
QDag(A) == [k \in 1..Len(A) |->
               [c |-> CConj(A[k].c), f |-> [s \in 1..Len(A[k].f) |-> Dag2(A[k].f[s])]]]

\* Basis state x in 0 .. 2^N - 1 of the N-site space: the occupation of site
\* s (0-based, site 0 the leftmost tensor factor).
Bit(x, s, N) == (x \div Pow2(N - 1 - s)) % 2

RECURSIVE FactorElem(_, _, _, _, _)
\* The matrix element <x| f[1] (x) ... (x) f[upto] (x) ... |y>, over the
\* first upto factors.
FactorElem(f, x, y, N, upto) ==
    IF upto = 0 THEN 1
    ELSE FactorElem(f, x, y, N, upto - 1)
         * f[upto][Bit(x, upto - 1, N) + 1][Bit(y, upto - 1, N) + 1]

RECURSIVE ElemTo(_, _, _, _, _)
ElemTo(A, x, y, N, n) ==
    IF n = 0 THEN CZero
    ELSE CAdd(ElemTo(A, x, y, N, n - 1),
              CMul(A[n].c, CInt(FactorElem(A[n].f, x, y, N, N))))
\* The matrix element <x| A |y> of an operator on the N-site space.
Elem(A, x, y, N) == ElemTo(A, x, y, N, Len(A))

(***************************************************************************)
(* 1. Operators on a site of the N-site tensor space.                      *)
(***************************************************************************)
\* op_list[i] = op on a Python list of length N: an index in [-N, N) is
\* accepted, a negative one counting from the end; any other raises.
ListIndexOk(i, N) == -N <= i /\ i < N
ListSlot(i, N) == IF i < 0 THEN i + N ELSE i

\* operator_on_site(op, i, N): the built operator, or the raised IndexError.
operator_on_site(op, i, N) ==
    IF ~ListIndexOk(i, N)
    THEN [err |-> "IndexError"]
    ELSE [err |-> "none",
          mat |-> tensor([s \in 1..N |-> IF s = ListSlot(i, N) + 1 THEN op ELSE qeye2])]

destroy_site(i, N) == operator_on_site(destroy2, i, N).mat
create_site(i, N) == operator_on_site(create2, i, N).mat

(***************************************************************************)
(* The seeded generator.                                                   *)
(***************************************************************************)
\* A run whose generator was not seeded with the fixed seed: its stream is
\* its own (here the stream read backwards).
Unseeded(run) ==
    IF run = 1 THEN rngStream
    ELSE [k \in 1..Len(rngStream) |-> rngStream[Len(rngStream) + 1 - k]]

\* np.random.seed(42) at import: every run of the program reads the same
\* stream from its start.
Seeded(run) == rngStream

\* np.random.rand(): the draw at stream position pos (0-based), in [0,1).
rand(run, pos) == CQ(Seeded(run)[pos + 1], 0, RDen)

(***************************************************************************)
(* 2. SSH Hamiltonian.                                                     *)
(***************************************************************************)
\* t_val = base_t * (1 + disorder*(np.random.rand() - 0.5))
t_val(base_t, disorder, u) ==
    CMul(base_t, CAdd(COne, CMul(disorder, CAdd(u, CQ(-1, 0, 2)))))

\* base_t = t1 if (i % 2 == 0) else t2
base_t(i, t1, t2) == IF i % 2 = 0 THEN t1 ELSE t2

\* The two terms of a bond with the second one not conjugated.
BondTermsNoConj(i, N, t) ==
    QAdd(QScale(t, QMul(create_site(i, N), destroy_site(i + 1, N))),
         QScale(t, QMul(create_site(i + 1, N), destroy_site(i, N))))

\* The two terms one bond adds to H.
BondTerms(i, N, t) ==
    QAdd(QScale(t, QMul(create_site(i, N), destroy_site(i + 1, N))),
         QScale(CConj(t), QMul(create_site(i + 1, N), destroy_site(i, N))))

RECURSIVE sshLoop(_, _, _, _, _, _, _)
\* The state after the loop iterations i = 0 .. upto-1 of a call that
\* started at stream position pos: H, the amplitudes drawn, and the
\* stream position reached.
sshLoop(run, N, t1, t2, disorder, pos, upto) ==
    IF upto = 0
    THEN [H |-> <<>>, amps |-> <<>>, pos |-> pos]
    ELSE LET prev == sshLoop(run, N, t1, t2, disorder, pos, upto - 1)
             i == upto - 1
             t == t_val(base_t(i, t1, t2), disorder, rand(run, prev.pos))
         IN  [H |-> QAdd(prev.H, BondTerms(i, N, t)),
              amps |-> Append(prev.amps, t),
              pos |-> prev.pos + 1]

\* ssh_hamiltonian_extended(N, t1, t2, disorder), called at stream position
\* pos.  (For N = 1 the code returns the number 0: the empty sum.)
ssh_hamiltonian_extended(run, N, t1, t2, disorder, pos) ==
    sshLoop(run, N, t1, t2, disorder, pos, N - 1)

\* Inputs of the builder: the script's t1 = 0.5, t2 = 1.0 (lines 91-92), and
\* a complex pair.
ScriptHops == { <<CQ(1, 0, 2), CQ(1, 0, 1)>> }
HopPairs == ScriptHops \cup { <<CQ(0, 1, 2), CQ(1, 1, 1)>> }
Disorders == { CZero, CQ(3, 0, 10) }
Streams == [1..MaxDraws -> 0..(RDen - 1)]

NoCall == [op |-> "none"]

InitBuild ==
    /\ rngStream \in Streams
    /\ rngPos = [r \in Runs |-> 0]
    /\ rho = <<>>
    /\ inp = <<>>
    /\ out = [r \in Runs |-> NoCall]

\* Run r calls the builder, with hopping amplitudes from hops.
Build(r, hops) ==
    \E N \in 1..MaxN, tp \in hops, d \in Disorders :
        /\ rngPos[r] + (N - 1) <= MaxDraws
        /\ LET res == ssh_hamiltonian_extended(r, N, tp[1], tp[2], d, rngPos[r])
           IN  /\ out' = [out EXCEPT ![r] =
                     [op |-> "build", N |-> N, t1 |-> tp[1], t2 |-> tp[2],
                      disorder |-> d, start |-> rngPos[r],
                      amps |-> res.amps, H |-> res.H]]
               /\ rngPos' = [rngPos EXCEPT ![r] = res.pos]
        /\ UNCHANGED <<rngStream, rho, inp>>

\* Run r makes one other draw from the generator (a measurement shot's
\* np.random.rand()).
OtherDraw(r) ==
    /\ rngPos[r] < MaxDraws
    /\ rngPos' = [rngPos EXCEPT ![r] = rngPos[r] + 1]
    /\ UNCHANGED <<rngStream, rho, inp, out>>

\* Two runs of the program, each seeded at its start, calling the builder
\* between other draws.
NextRuns == \E r \in Runs : Build(r, ScriptHops) \/ OtherDraw(r)

Spec == InitBuild /\ [][NextRuns]_vars

\* One run, over every input of the builder.
NextBuild == Build(1, HopPairs) \/ OtherDraw(1)

SpecBuild == InitBuild /\ [][NextBuild]_vars

(***************************************************************************)
(* Inverse participation ratio.  A ket is a record [amps, norm2]: the      *)
(* vector sum of amps[k].a |amps[k].x> divided by sqrt(norm2), the         *)
(* coefficients Gaussian integers and |x> the basis states.                *)
(***************************************************************************)
AbsSq(a) == a.re * a.re + a.im * a.im

RECURSIVE Norm2To(_, _)
Norm2To(amps, n) == IF n = 0 THEN 0 ELSE Norm2To(amps, n - 1) + AbsSq(amps[n])

RECURSIVE ExpectRow(_, _, _, _, _)
\* The sum over l = 1 .. n of conj(a_k) <x_k| A |x_l> a_l.
ExpectRow(A, amps, N, k, n) ==
    IF n = 0 THEN CZero
    ELSE CAdd(ExpectRow(A, amps, N, k, n - 1),
              CMul(CMul(CConj(amps[k].a), Elem(A, amps[k].x, amps[n].x, N)), amps[n].a))

RECURSIVE ExpectTo(_, _, _, _)
\* The sum of the rows k = 1 .. n.
ExpectTo(A, amps, N, n) ==
    IF n = 0 THEN CZero
    ELSE CAdd(ExpectTo(A, amps, N, n - 1), ExpectRow(A, amps, N, n, Len(amps)))

\* qt.expect(A, psi) = <psi| A |psi>
expect(A, psi, N) ==
    CMul(ExpectTo(A, psi.amps, N, Len(psi.amps)), CQ(1, 0, psi.norm2))

RECURSIVE iprLoop(_, _, _)
\* ipr after the loop iterations i = 0 .. upto-1.
iprLoop(psi, N, upto) ==
    IF upto = 0 THEN CZero
    ELSE LET proj_i == operator_on_site(proj1, upto - 1, N).mat
             p_i == expect(proj_i, psi, N)
         IN  CAdd(iprLoop(psi, N, upto - 1), CMul(p_i, p_i))

\* The loop of compute_ipr stopping one site short.
compute_ipr_short(psi, N) == iprLoop(psi, N, N - 1)

\* compute_ipr(psi, N)
compute_ipr(psi, N) == iprLoop(psi, N, N)

(***************************************************************************)
(* The lattice functions, called on bounded inputs.                        *)
(***************************************************************************)
\* Single-site operators handed to operator_on_site: the ladder and number
\* operators of lines 44, 48, 69 and sigma_x.
SiteOps == { destroy2, create2, num2, <<<<0, 1>>, <<1, 0>>>> }

\* Coefficients of a ket.
AmpVals == { CZero, COne, CInt(2), [re |-> 0, im |-> 1, den |-> 1] }

\* The ket with coefficient c[0] on the vacuum and c[s+1] on the state with
\* site s alone excited.
KetOf(c, N) ==
    LET amps == [k \in 1..(N + 1) |->
                    [x |-> IF k = 1 THEN 0 ELSE Pow2(N + 1 - k), a |-> c[k - 1]]]
    IN  [amps |-> amps,
         norm2 |-> Norm2To([k \in 1..(N + 1) |-> c[k - 1]], N + 1)]

\* The arguments of the calls.
SiteArgs ==
    { [fn |-> "operator_on_site", site |-> op, i |-> i, N |-> N] :
        op \in SiteOps, i \in (-MaxN - 1)..(MaxN + 1), N \in 0..MaxN }
KetsOn(N) == { KetOf(c, N) : c \in { d \in [0..N -> AmpVals] : \E k \in 0..N : d[k] # CZero } }
IprArgs == UNION { { [fn |-> "compute_ipr", psi |-> psi, N |-> N] : psi \in KetsOn(N) } : N \in 1..MaxN }

\* No generator, no measured state: the function called is pure.
PureInit(args) ==
    /\ rngStream = [k \in 1..MaxDraws |-> 0]
    /\ rngPos = [r \in Runs |-> 0]
    /\ rho = <<>>
    /\ inp \in args
    /\ out = [r \in Runs |-> NoCall]

InitSite == PureInit(SiteArgs \cup IprArgs)

CallOperatorOnSite ==
    /\ out[1] = NoCall
    /\ inp.fn = "operator_on_site"
    /\ out' = [out EXCEPT ![1] =
           [op |-> "operator_on_site", site |-> inp.site, i |-> inp.i, N |-> inp.N,
            res |-> operator_on_site(inp.site, inp.i, inp.N)]]
    /\ UNCHANGED <<rngStream, rngPos, rho, inp>>

CallIpr ==
    /\ out[1] = NoCall
    /\ inp.fn = "compute_ipr"
    /\ out' = [out EXCEPT ![1] =
           [op |-> "compute_ipr", psi |-> inp.psi, N |-> inp.N,
            res |-> compute_ipr(inp.psi, inp.N)]]
    /\ UNCHANGED <<rngStream, rngPos, rho, inp>>

NextSite == CallOperatorOnSite \/ CallIpr

SpecSite == InitSite /\ [][NextSite]_vars

(***************************************************************************)
(* 3. Measurement in the embedded subspace.                                *)
(*                                                                         *)
(* Probabilities are fixed-point numbers [hi, lo] standing for             *)
(* hi * 1e-6 + lo * 1e-15, so that the threshold 1e-14 of line 169 is      *)
(* exact.  States and operators are dense matrices in a basis whose first  *)
(* two vectors are the edge states and whose third stands for the rest of  *)
(* the lattice space (the leakage).                                        *)
(***************************************************************************)
\* 1e-15 units per 1e-6 unit.
FxBase == 1000 * 1000 * 1000

Fx(hi, lo) == [hi |-> hi, lo |-> lo]
FxZero == Fx(0, 0)
FxOne == Fx(1000 * 1000, 0)
\* 1e-14
EPS == Fx(0, 10)

FxAdd(x, y) == Fx(x.hi + y.hi, x.lo + y.lo)
\* n * x for an integer n
FxScale(n, x) == Fx(n * x.hi, n * x.lo)
\* x / 2, exact for the even numbers of the model
FxHalf(x) == Fx(x.hi \div 2, ((x.hi % 2) * FxBase + x.lo) \div 2)
\* x < y
FxLess(x, y) == (x.hi - y.hi) + ((x.lo - y.lo) \div FxBase) < 0
FxEq(x, y) == ~FxLess(x, y) /\ ~FxLess(y, x)

\* Dimension of the modelled space.
SpaceDim == 1..3

\* The isometry U of EmbeddedQubit: its columns are the two edge states.
U == <<<<1, 0>>, <<0, 1>>, <<0, 0>>>>

\* qt.qeye(2) + s * sigma, for sigma_z and sigma_x: integer 2x2 matrices.
IdPlusSigma(basis, s) ==
    IF basis = "z" THEN <<<<1 + s, 0>>, <<0, 1 - s>>>>
    ELSE <<<<1, s>>, <<s, 1>>>>

\* embed_operator(A_2x2) = U A U^dagger, for an integer matrix A.
embed_operator(A) ==
    LET e(i, j) == U[i][1] * (A[1][1] * U[j][1] + A[1][2] * U[j][2])
                   + U[i][2] * (A[2][1] * U[j][1] + A[2][2] * U[j][2])
    IN  <<<<e(1, 1), e(1, 2), e(1, 3)>>,
          <<e(2, 1), e(2, 2), e(2, 3)>>,
          <<e(3, 1), e(3, 2), e(3, 3)>>>>

\* measurement_operators(basis): (P0, P1) = 0.5 * (I +- sigma), embedded.  The
\* operators are kept doubled: a pair of integer matrices 2*P0, 2*P1.
measurement_operators(basis) ==
    <<embed_operator(IdPlusSigma(basis, 1)), embed_operator(IdPlusSigma(basis, -1))>>

\* P * rho and rho * P for a doubled operator P2 = 2 P.
PTimes(P2, m) ==
    LET e(i, j) == FxHalf(FxAdd(FxAdd(FxScale(P2[i][1], m[1][j]), FxScale(P2[i][2], m[2][j])),
                                FxScale(P2[i][3], m[3][j])))
    IN  <<<<e(1, 1), e(1, 2), e(1, 3)>>,
          <<e(2, 1), e(2, 2), e(2, 3)>>,
          <<e(3, 1), e(3, 2), e(3, 3)>>>>
TimesP(m, P2) ==
    LET e(i, j) == FxHalf(FxAdd(FxAdd(FxScale(P2[1][j], m[i][1]), FxScale(P2[2][j], m[i][2])),
                                FxScale(P2[3][j], m[i][3])))
    IN  <<<<e(1, 1), e(1, 2), e(1, 3)>>,
          <<e(2, 1), e(2, 2), e(2, 3)>>,
          <<e(3, 1), e(3, 2), e(3, 3)>>>>
\* .tr().real
Tr(m) == FxAdd(FxAdd(m[1][1], m[2][2]), m[3][3])

\* (P * rho * P) / p: the quotient is kept as numerator and denominator.
Collapse(P2, rh, p) == [num |-> TimesP(PTimes(P2, rh), P2), den |-> p]

\* measure_in_subspace with the draw compared by <= instead of <.
measure_in_subspace_le(rh, P_plus, P_minus, run, pos) ==
    LET p_plus == Tr(PTimes(P_plus, rh))
        p_minus == Tr(PTimes(P_minus, rh))
        p_sum == FxAdd(p_plus, p_minus)
    IN  IF FxLess(p_sum, EPS)
        THEN [outcome |-> 0, state |-> rh, pos |-> pos]
        ELSE IF ~FxLess(FxScale(rand(run, pos).den, p_plus),
                        FxScale(rand(run, pos).re, p_sum))
        THEN [outcome |-> 1, state |-> Collapse(P_plus, rh, p_plus), pos |-> pos + 1]
        ELSE [outcome |-> -1, state |-> Collapse(P_minus, rh, p_minus), pos |-> pos + 1]

\* measure_in_subspace with the draw compared with p_plus itself.
measure_in_subspace_raw(rh, P_plus, P_minus, run, pos) ==
    LET p_plus == Tr(PTimes(P_plus, rh))
        p_minus == Tr(PTimes(P_minus, rh))
        p_sum == FxAdd(p_plus, p_minus)
    IN  IF FxLess(p_sum, EPS)
        THEN [outcome |-> 0, state |-> rh, pos |-> pos]
        ELSE IF FxLess(FxScale(rand(run, pos).re, FxOne),
                       FxScale(rand(run, pos).den, p_plus))
        THEN [outcome |-> 1, state |-> Collapse(P_plus, rh, p_plus), pos |-> pos + 1]
        ELSE [outcome |-> -1, state |-> Collapse(P_minus, rh, p_minus), pos |-> pos + 1]

\* measure_in_subspace(rho, P_plus, P_minus), called at stream position pos:
\* the outcome, the post-measurement state and the stream position reached.
\* The draw u = k/RDen is below p_plus/(p_plus + p_minus) iff
\* k * (p_plus + p_minus) < RDen * p_plus, the sum being positive there.
measure_in_subspace(rh, P_plus, P_minus, run, pos) ==
    LET p_plus == Tr(PTimes(P_plus, rh))
        p_minus == Tr(PTimes(P_minus, rh))
        p_sum == FxAdd(p_plus, p_minus)
    IN  IF FxLess(p_sum, EPS)
        THEN [outcome |-> 0, state |-> rh, pos |-> pos]
        ELSE IF FxLess(FxScale(rand(run, pos).re, p_sum),
                       FxScale(rand(run, pos).den, p_plus))
        THEN [outcome |-> 1, state |-> Collapse(P_plus, rh, p_plus), pos |-> pos + 1]
        ELSE [outcome |-> -1, state |-> Collapse(P_minus, rh, p_minus), pos |-> pos + 1]

RECURSIVE trials(_, _, _, _, _, _)
\* The outcomes list after num trials, and the stream position reached.
trials(rh, P_plus, P_minus, run, pos, num) ==
    IF num = 0 THEN [outcomes |-> <<>>, pos |-> pos]
    ELSE LET prev == trials(rh, P_plus, P_minus, run, pos, num - 1)
             shot == measure_in_subspace(rh, P_plus, P_minus, run, prev.pos)
         IN  [outcomes |-> Append(prev.outcomes, shot.outcome), pos |-> shot.pos]

RECURSIVE CountEq(_, _, _)
\* sum(o == v for o in outcomes[1..n])
CountEq(outcomes, v, n) ==
    IF n = 0 THEN 0
    ELSE CountEq(outcomes, v, n - 1) + (IF outcomes[n] = v THEN 1 ELSE 0)

\* repeated_measurement(rho, P_plus, P_minus, num_trials)
repeated_measurement(rh, P_plus, P_minus, num_trials, run, pos) ==
    LET t == trials(rh, P_plus, P_minus, run, pos, num_trials)
        plus_count == CountEq(t.outcomes, 1, num_trials)
        minus_count == num_trials - plus_count
    IN  [outcomes |-> t.outcomes, plus_count |-> plus_count,
         minus_count |-> minus_count, pos |-> t.pos]

\* Weights of the measured state on the two edge states: 0, 4e-15, 8e-15,
\* 1/4, 1/2 and 1.
Weights == { FxZero, Fx(0, 4), Fx(0, 8), Fx(250000, 0), Fx(500000, 0), FxOne }
FxNeg(x) == Fx(-x.hi, -x.lo)

\* The density matrix with weights a, b on the edge states, coherence c
\* between them and the rest of the trace outside the subspace.
RhoOf(a, b, c) ==
    <<<<a, c, FxZero>>,
      <<c, b, FxZero>>,
      <<FxZero, FxZero, FxAdd(FxOne, FxNeg(FxAdd(a, b)))>>>>

\* Density matrices: diagonal mixtures, and the pure states (e1 +- e2)
\* of every weight.
Rhos ==
    { RhoOf(q[1], q[2], FxZero) :
        q \in { w \in Weights \X Weights : ~FxLess(FxOne, FxAdd(w[1], w[2])) } }
    \cup { RhoOf(a, a, a) : a \in { w \in Weights : w # FxZero /\ ~FxLess(FxOne, FxAdd(w, w)) } }
    \cup { RhoOf(a, a, FxNeg(a)) : a \in { w \in Weights : w # FxZero /\ ~FxLess(FxOne, FxAdd(w, w)) } }

Bases == { "z", "x" }

InitMeasure ==
    /\ rngStream \in Streams
    /\ rngPos = [r \in Runs |-> 0]
    /\ rho \in Rhos
    /\ inp = <<>>
    /\ out = [r \in Runs |-> NoCall]

\* The draws a call of num shots makes: none when the state is degenerate.
DrawsOf(rh, Ps, num) ==
    IF FxLess(FxAdd(Tr(PTimes(Ps[1], rh)), Tr(PTimes(Ps[2], rh))), EPS) THEN 0 ELSE num

\* One shot on rho in the given basis.
SingleShot ==
    \E basis \in Bases :
        \E Ps \in {measurement_operators(basis)} :
            /\ rngPos[1] + DrawsOf(rho, Ps, 1) <= MaxDraws
            /\ \E res \in {measure_in_subspace(rho, Ps[1], Ps[2], 1, rngPos[1])} :
                   /\ out' = [out EXCEPT ![1] =
                         [op |-> "measure_in_subspace", basis |-> basis,
                          start |-> rngPos[1], outcome |-> res.outcome,
                          state |-> res.state]]
                   /\ rngPos' = [rngPos EXCEPT ![1] = res.pos]
            /\ UNCHANGED <<rngStream, rho, inp>>

\* num_trials shots on rho in the given basis.
RepeatedTrials ==
    \E basis \in Bases, num_trials \in 0..MaxDraws :
        \E Ps \in {measurement_operators(basis)} :
            /\ rngPos[1] + DrawsOf(rho, Ps, num_trials) <= MaxDraws
            /\ \E res \in {repeated_measurement(rho, Ps[1], Ps[2], num_trials, 1, rngPos[1])} :
                   /\ out' = [out EXCEPT ![1] =
                         [op |-> "repeated_measurement", basis |-> basis,
                          num_trials |-> num_trials, start |-> rngPos[1],
                          outcomes |-> res.outcomes,
                          plus_count |-> res.plus_count, minus_count |-> res.minus_count]]
                   /\ rngPos' = [rngPos EXCEPT ![1] = res.pos]
            /\ UNCHANGED <<rngStream, rho, inp>>

NextMeasure == SingleShot \/ RepeatedTrials

SpecMeasure == InitMeasure /\ [][NextMeasure]_vars

(***************************************************************************)
(* Claims about the builder.                                               *)
(***************************************************************************)
SameArgs(a, b) ==
    /\ a.op = "build" /\ b.op = "build"
    /\ a.N = b.N /\ a.t1 = b.t1 /\ a.t2 = b.t2 /\ a.disorder = b.disorder

Moved(x, y, i, j, N) ==
    /\ Bit(x, i, N) = 1 /\ Bit(x, j, N) = 0
    /\ Bit(y, i, N) = 0 /\ Bit(y, j, N) = 1
    /\ \A s \in 0..(N - 1) : (s # i /\ s # j) => Bit(x, s, N) = Bit(y, s, N)

\* The amplitude of bond i of a build, from the draw the build made for it.
BondAmp(b, i) ==
    LET base == IF i % 2 = 0 THEN b.t1 ELSE b.t2
        k == rngStream[b.start + i + 1]
    IN  CMul(base, CAdd(COne, CMul(b.disorder, CQ(2 * k - RDen, 0, 2 * RDen))))

\* The matrix element <x| H |y> the claim gives a build.
Coupling(b, x, y) ==
    IF \E i \in 0..(b.N - 2) : Moved(x, y, i, i + 1, b.N)
    THEN BondAmp(b, CHOOSE i \in 0..(b.N - 2) : Moved(x, y, i, i + 1, b.N))
    ELSE IF \E i \in 0..(b.N - 2) : Moved(x, y, i + 1, i, b.N)
    THEN CConj(BondAmp(b, CHOOSE i \in 0..(b.N - 2) : Moved(x, y, i + 1, i, b.N)))
    ELSE CZero

\* C9: every built Hamiltonian equals its conjugate transpose; the coupling
\* from site i+1 to site i is base*(1+disorder*(u-0.5)) with base t1 for
\* even i and t2 for odd i, the reverse coupling is its complex conjugate,
\* and every other matrix element is zero.
C9_HermitianCouplings ==
    \A r \in Runs :
        out[r].op = "build" =>
            \A x \in 0..(Pow2(out[r].N) - 1), y \in 0..(Pow2(out[r].N) - 1) :
                /\ Elem(out[r].H, x, y, out[r].N) = CConj(Elem(out[r].H, y, x, out[r].N))
                /\ Elem(out[r].H, x, y, out[r].N) = Coupling(out[r], x, y)

\* A build of three or more sites with complex hopping and disorder, the
\* draws off the centre of [0,1).
C9_Witness ==
    /\ out[1].op = "build"
    /\ out[1].N >= 3
    /\ out[1].t1.im # 0
    /\ out[1].disorder # CZero
    /\ out[1].amps[1].im # 0 /\ out[1].amps[1] # out[1].t1
    /\ Elem(out[1].H, Pow2(out[1].N - 1), Pow2(out[1].N - 2), out[1].N) = out[1].amps[1]

(***************************************************************************)
(* Claims about operator_on_site and compute_ipr.                          *)
(***************************************************************************)
\* C4: operator_on_site fails and builds no operator for every site index
\* outside [0, N), negative or too large; for an index in [0, N) the
\* operator is op at tensor position i and the identity elsewhere.
C4_IndexChecked ==
    out[1].op = "operator_on_site" =>
        IF out[1].i < 0 \/ out[1].i >= out[1].N
        THEN out[1].res.err # "none"
        ELSE /\ out[1].res.err = "none"
             /\ out[1].res.mat =
                    <<[c |-> COne,
                       f |-> [s \in 1..out[1].N |->
                                 IF s = out[1].i + 1 THEN out[1].site ELSE qeye2]]>>

\* The probability that site i is excited, from the coefficients of the ket.
SiteProbNum(psi, i, N) ==
    Norm2To([k \in 1..Len(psi.amps) |->
                IF Bit(psi.amps[k].x, i, N) = 1 THEN psi.amps[k].a ELSE CZero],
            Len(psi.amps))

RECURSIVE SumProbNum(_, _, _)
SumProbNum(psi, N, n) ==
    IF n = 0 THEN 0 ELSE SumProbNum(psi, N, n - 1) + SiteProbNum(psi, n - 1, N)

\* The per-site excitation probabilities of the ket sum to 1.
SingleExcitation(psi, N) == SumProbNum(psi, N, N) = psi.norm2

\* C8: for a state whose per-site excitation probabilities sum to 1,
\* 1/N <= ipr <= 1, ipr = 1/N for the uniform distribution (and only for
\* it), and ipr = 1 exactly when one site carries all the probability.
C8_IprBounds ==
    (out[1].op = "compute_ipr" /\ SingleExcitation(out[1].psi, out[1].N)) =>
        LET psi == out[1].psi
            N == out[1].N
            ipr == out[1].res
        IN  /\ ipr.im = 0
            /\ ipr.den <= N * ipr.re
            /\ ipr.re <= ipr.den
            /\ (\A i \in 0..(N - 1) : N * SiteProbNum(psi, i, N) = psi.norm2)
                   <=> (N * ipr.re = ipr.den)
            /\ (\E i \in 0..(N - 1) : SiteProbNum(psi, i, N) = psi.norm2)
                   <=> (ipr.re = ipr.den)

\* compute_ipr was called on three or more sites with a single-excitation
\* state that is neither uniform nor on one site.
C8_Witness ==
    /\ out[1].op = "compute_ipr"
    /\ out[1].N >= 3
    /\ SingleExcitation(out[1].psi, out[1].N)
    /\ out[1].N * out[1].res.re > out[1].res.den
    /\ out[1].res.re < out[1].res.den
    /\ \A i \in 0..(out[1].N - 1) : SiteProbNum(out[1].psi, i, out[1].N) > 0

\* compute_ipr was called on the uniform state of three or more sites.
C8_WitnessUniform ==
    /\ out[1].op = "compute_ipr"
    /\ out[1].N >= 3
    /\ \A i \in 0..(out[1].N - 1) :
           out[1].N * SiteProbNum(out[1].psi, i, out[1].N) = out[1].psi.norm2
    /\ out[1].N * out[1].res.re = out[1].res.den

(***************************************************************************)
(* Claims about the measurement simulator.                                 *)
(***************************************************************************)
\* The probability of outcome s (+1 or -1) in a basis, from the entries of
\* the measured state.
ProbOf(basis, s) ==
    IF basis = "z"
    THEN (IF s = 1 THEN rho[1][1] ELSE rho[2][2])
    ELSE FxHalf(FxAdd(FxAdd(rho[1][1], rho[2][2]),
                      FxScale(s, FxAdd(rho[1][2], rho[2][1]))))

\* Entry (i, j) of P rho P for the operator of outcome s: the probability
\* times the projector's entry.
PostEntry(basis, s, i, j) ==
    IF basis = "z"
    THEN (IF i = j /\ i = (IF s = 1 THEN 1 ELSE 2) THEN ProbOf(basis, s) ELSE FxZero)
    ELSE IF i <= 2 /\ j <= 2
         THEN FxHalf(FxScale(IF i = j THEN 1 ELSE s, ProbOf(basis, s)))
         ELSE FxZero

\* The state is P rho P / p for the operator of outcome s.
IsCollapsed(st, basis, s) ==
    /\ FxEq(st.den, ProbOf(basis, s))
    /\ FxLess(FxZero, st.den)
    /\ \A i \in SpaceDim, j \in SpaceDim : FxEq(st.num[i][j], PostEntry(basis, s, i, j))

\* C2: repeated_measurement returns (count+, count-), the number of shots
\* whose outcome was +1 and the number whose outcome was -1, for every rho;
\* shots with the sentinel outcome 0 are counted in neither.
C2_CountsMatchOutcomes ==
    \A r \in Runs :
        out[r].op = "repeated_measurement" =>
            /\ out[r].plus_count = CountEq(out[r].outcomes, 1, out[r].num_trials)
            /\ out[r].minus_count = CountEq(out[r].outcomes, -1, out[r].num_trials)

\* C6: a shot with p+ + p- < 1e-14 returns the sentinel 0 and rho itself;
\* with p+ + p- >= 1e-14 it returns +1 and P+ rho P+ / p+ when the draw is
\* below p+/(p+ + p-), and -1 and P- rho P- / p- otherwise, never the
\* sentinel (and never a quotient by zero).
C6_SingleShot ==
    out[1].op = "measure_in_subspace" =>
        LET pp == ProbOf(out[1].basis, 1)
            pm == ProbOf(out[1].basis, -1)
        IN  IF FxLess(FxAdd(pp, pm), EPS)
            THEN out[1].outcome = 0 /\ out[1].state = rho
            ELSE IF FxLess(FxScale(rngStream[out[1].start + 1], FxAdd(pp, pm)),
                           FxScale(RDen, pp))
                 THEN out[1].outcome = 1 /\ IsCollapsed(out[1].state, out[1].basis, 1)
                 ELSE out[1].outcome = -1 /\ IsCollapsed(out[1].state, out[1].basis, -1)

\* A shot returned the sentinel on a state whose probability in the
\* subspace is positive but below the threshold.
C6_Witness ==
    /\ out[1].op = "measure_in_subspace"
    /\ out[1].outcome = 0
    /\ FxLess(FxZero, FxAdd(ProbOf(out[1].basis, 1), ProbOf(out[1].basis, -1)))

\* A shot in the x basis returned -1 with a draw of 1/2 on a state that
\* leaks out of the subspace.
C6_WitnessCollapse ==
    /\ out[1].op = "measure_in_subspace"
    /\ out[1].basis = "x"
    /\ out[1].outcome = -1
    /\ 2 * rngStream[out[1].start + 1] >= RDen
    /\ FxLess(FxZero, rho[3][3])

\* All num_trials outcomes are v, counted as (plus, minus).
AllOutcomes(o, v, plus, minus) ==
    /\ \A k \in 1..o.num_trials : o.outcomes[k] = v
    /\ o.plus_count = plus /\ o.minus_count = minus

\* C7 as stated: when one of p+, p- is 0 and the other is positive, every
\* trial yields the outcome of the operator with the positive probability,
\* whatever the draws: (n, 0) when p- = 0 and (0, n) when p+ = 0.
C7_OneSidedPositive ==
    out[1].op = "repeated_measurement" =>
        LET pp == ProbOf(out[1].basis, 1)
            pm == ProbOf(out[1].basis, -1)
        IN  /\ (FxEq(pm, FxZero) /\ FxLess(FxZero, pp))
                   => AllOutcomes(out[1], 1, out[1].num_trials, 0)
            /\ (FxEq(pp, FxZero) /\ FxLess(FxZero, pm))
                   => AllOutcomes(out[1], -1, 0, out[1].num_trials)

\* C7 amended: when one of p+, p- is 0 and the other is at least 1e-14,
\* every trial yields the outcome of the operator with the positive
\* probability, whatever the draws: (n, 0) when p- = 0, (0, n) when p+ = 0.
C7_OneSidedAboveThreshold ==
    out[1].op = "repeated_measurement" =>
        LET pp == ProbOf(out[1].basis, 1)
            pm == ProbOf(out[1].basis, -1)
        IN  /\ (FxEq(pm, FxZero) /\ ~FxLess(pp, EPS))
                   => AllOutcomes(out[1], 1, out[1].num_trials, 0)
            /\ (FxEq(pp, FxZero) /\ ~FxLess(pm, EPS))
                   => AllOutcomes(out[1], -1, 0, out[1].num_trials)

\* Two or more trials, all +1, on a state with p- = 0 and p+ = 1/4, one of
\* the draws at least 1/2.
C7_Witness ==
    /\ out[1].op = "repeated_measurement"
    /\ out[1].num_trials >= 2
    /\ FxEq(ProbOf(out[1].basis, -1), FxZero)
    /\ FxEq(ProbOf(out[1].basis, 1), Fx(250000, 0))
    /\ out[1].plus_count = out[1].num_trials
    /\ \E k \in 1..out[1].num_trials : 2 * rngStream[out[1].start + k] >= RDen

-----------------------------------------------------------------------------
\* Section 4 of the script: holographic OAM qudits.
\*
\* Amplitudes are kept exactly, as integer combinations of the powers of
\* omega = exp(2j*pi/dim): the tuple a stands for the sum of a[k] * omega^(k-1).
\* A Qobj is a record [mat or vec, den2]: its entries are those of the table
\* divided by sqrt(den2).  The strength chi is a multiple chi_k * 2*pi/dim, so
\* that exp(1j*chi*l^2) is the power omega^(chi_k * l^2).

Dims == {1, 2, 3, 4}

RECURSIVE Tab(_, _)
\* The list <<f(1), ..., f(n)>>.
Tab(f(_), n) == IF n = 0 THEN <<>> ELSE Append(Tab(f, n - 1), f(n))

RECURSIVE ISum(_, _)
ISum(f(_), n) == IF n = 0 THEN 0 ELSE ISum(f, n - 1) + f(n)

CycZero(d) == Tab(LAMBDA k : 0, d)
\* omega ** e
Root(d, e) == Tab(LAMBDA k : IF k - 1 = e % d THEN 1 ELSE 0, d)
CycAdd(a, b) == Tab(LAMBDA k : a[k] + b[k], Len(a))
CycMul(a, b) ==
    Tab(LAMBDA k : ISum(LAMBDA i : a[i] * b[((k - i) % Len(a)) + 1], Len(a)), Len(a))
CycConj(a) == Tab(LAMBDA k : a[((Len(a) - (k - 1)) % Len(a)) + 1], Len(a))
CycScale(n, a) == Tab(LAMBDA k : n * a[k], Len(a))

RECURSIVE CycSum(_, _, _)
CycSum(f(_), n, d) == IF n = 0 THEN CycZero(d) ELSE CycAdd(CycSum(f, n - 1, d), f(n))

\* The coordinates of a number in a basis of the powers of omega: two tuples
\* stand for the same complex number iff their coordinates are equal.  For
\* dim = 4, omega^2 = -1; for dim = 2 and 3 the powers of omega sum to zero.
Coords(a) ==
    IF Len(a) = 1 THEN a
    ELSE IF Len(a) = 4 THEN <<a[1] - a[3], a[2] - a[4]>>
    ELSE Tab(LAMBDA k : a[k] - a[Len(a)], Len(a) - 1)

\* dft_operator(dim): F[i][j] = omega**(i*j) / sqrt(dim)
dft_operator(dim) ==
    [mat |-> Tab(LAMBDA i : Tab(LAMBDA j : Root(dim, (i - 1) * (j - 1)), dim), dim),
     den2 |-> dim]

\* Qobj * Qobj, Qobj.dag() and Qobj * ket
MatMul(A, B) ==
    [mat |-> Tab(LAMBDA i : Tab(LAMBDA j :
                 CycSum(LAMBDA k : CycMul(A.mat[i][k], B.mat[k][j]), Len(A.mat), Len(A.mat[1][1])),
                 Len(A.mat)), Len(A.mat)),
     den2 |-> A.den2 * B.den2]
\* Qobj.dag() returning the operator unchanged
MatNoDag(A) == A
MatDag(A) ==
    [mat |-> Tab(LAMBDA i : Tab(LAMBDA j : CycConj(A.mat[j][i]), Len(A.mat)), Len(A.mat)),
     den2 |-> A.den2]
MatVec(A, psi) ==
    [vec |-> Tab(LAMBDA i :
                 CycSum(LAMBDA k : CycMul(A.mat[i][k], psi.vec[k]), Len(A.mat), Len(A.mat[1][1])),
                 Len(A.mat)),
     den2 |-> A.den2 * psi.den2]

\* holographic_oam_gate(state, dim)
holographic_oam_gate(state, dim) == MatVec(dft_operator(dim), state)

\* np.arange(-dim//2, dim//2): the unary minus binds before the floor division.
l_vals(dim) == Tab(LAMBDA j : ((-dim) \div 2) + (j - 1), (dim \div 2) - ((-dim) \div 2))
\* np.exp(1j * chi * (l_vals**2))
phases(dim, chi_k) == Tab(LAMBDA j : Root(dim, chi_k * l_vals(dim)[j] * l_vals(dim)[j]), Len(l_vals(dim)))
\* qt.Qobj(np.diag(phases))
H_nl(dim, chi_k) ==
    [mat |-> Tab(LAMBDA i : Tab(LAMBDA j :
                 IF i = j THEN phases(dim, chi_k)[i] ELSE CycZero(dim), dim), dim),
     den2 |-> 1]

\* combined_nonlinear_interaction(dim, chi) = U_DFT * H_nl * U_DFT.dag()
combined_nonlinear_interaction(dim, chi_k) ==
    MatMul(MatMul(dft_operator(dim), H_nl(dim, chi_k)), MatDag(dft_operator(dim)))

\* np.abs(psi.full().flatten())**2: the squared moduli, over the common
\* denominator den2.
probs(psi) ==
    [num |-> Tab(LAMBDA j : Coords(CycMul(psi.vec[j], CycConj(psi.vec[j]))), Len(psi.vec)),
     den |-> psi.den2]

\* Two distributions are equal: entry by entry, cross-multiplied.
SameDist(p, q) ==
    /\ Len(p.num) = Len(q.num)
    /\ \A j \in 1..Len(p.num) : CycScale(q.den, p.num[j]) = CycScale(p.den, q.num[j])

\* Input amplitudes: zero, 1 and omega.
OamAmps(d) == { CycZero(d), Root(d, 0), Root(d, 1) }

\* The normalized kets with these amplitudes: the squared norm of the table
\* is the number of its nonzero amplitudes.
OamKets(d) ==
    { [vec |-> v, den2 |-> Cardinality({ j \in 1..d : v[j] # CycZero(d) })] :
        v \in { w \in [1..d -> OamAmps(d)] : \E j \in 1..d : w[j] # CycZero(d) } }

QuditArgs ==
    UNION { { [fn |-> f, dim |-> d, chi |-> k, psi |-> ket] :
                f \in {"holographic_oam_gate", "combined_nonlinear_interaction"},
                k \in 0..(d - 1), ket \in OamKets(d) } : d \in Dims }

InitQudit == PureInit({ a \in QuditArgs : a.fn = "combined_nonlinear_interaction" \/ a.chi = 0 })

\* psi_oam_dft = holographic_oam_gate(psi_oam, dim_OAM)
CallHolographic ==
    /\ out[1] = NoCall
    /\ inp.fn = "holographic_oam_gate"
    /\ out' = [out EXCEPT ![1] =
          [op |-> "holographic_oam_gate", dim |-> inp.dim,
           probs |-> probs(holographic_oam_gate(inp.psi, inp.dim))]]
    /\ UNCHANGED <<rngStream, rngPos, rho, inp>>

\* psi_oam_nl = combined_nonlinear_interaction(dim_OAM, chi) * psi_oam
CallCombined ==
    /\ out[1] = NoCall
    /\ inp.fn = "combined_nonlinear_interaction"
    /\ out' = [out EXCEPT ![1] =
          [op |-> "combined_nonlinear_interaction", dim |-> inp.dim, chi |-> inp.chi,
           l_vals |-> l_vals(inp.dim),
           phases |-> Tab(LAMBDA j : Coords(phases(inp.dim, inp.chi)[j]), inp.dim),
           probs |-> probs(MatVec(combined_nonlinear_interaction(inp.dim, inp.chi), inp.psi))]]
    /\ UNCHANGED <<rngStream, rngPos, rho, inp>>

NextQudit == CallHolographic \/ CallCombined

SpecQudit == InitQudit /\ [][NextQudit]_vars

C5_SymmetricOamIndex ==
    out[1].op = "combined_nonlinear_interaction"
        => \A j \in 0..(out[1].dim - 1) :
              /\ out[1].l_vals[j + 1] = j - (out[1].dim \div 2)
              /\ out[1].phases[j + 1] =
                    Coords(Root(out[1].dim,
                                out[1].chi * (j - (out[1].dim \div 2)) * (j - (out[1].dim \div 2))))

-----------------------------------------------------------------------------
\* Section 6 of the script: berry_curvature.
\*
\* The eigenvectors come from the external solver; the model starts from the
\* overlaps np.vdot(u[i,j], u[ip,j]) and np.vdot(u[i,j], u[i,jp]), which it
\* takes freely: an overlap is zero, or has a phase that is a multiple of a
\* quarter turn.  A unit complex number is kept as its phase, counted in
\* quarter turns modulo PhaseM; nan is the result of 0/0.

PhaseSteps == {0, 1, 2, 3}
PhaseM == Cardinality(PhaseSteps)
GridSizes == {1, 2}

Grid(num_k) == (0..(num_k - 1)) \X (0..(num_k - 1))

Nan == [nan |-> TRUE, ph |-> 0]
Unit(p) == [nan |-> FALSE, ph |-> p % PhaseM]

\* z / abs(z)
Normalize(z) == IF z.abs = 0 THEN Nan ELSE Unit(z.ph)
\* a * b and np.conjugate(a) for unit numbers
UMul(a, b) == IF a.nan \/ b.nan THEN Nan ELSE Unit(a.ph + b.ph)
UConj(a) == IF a.nan THEN Nan ELSE Unit(PhaseM - a.ph)
\* np.angle(a), in quarter turns: the principal value in (-PhaseM/2, PhaseM/2]
angle(a) ==
    IF a.nan THEN [nan |-> TRUE, val |-> 0]
    ELSE [nan |-> FALSE, val |-> IF 2 * a.ph <= PhaseM THEN a.ph ELSE a.ph - PhaseM]

\* ip = (i+1) % num_k with the wraparound left out
ip_nowrap(i, num_k) == i + 1
\* ip = (i+1) % num_k, and jp likewise
ip(i, num_k) == (i + 1) % num_k
jp(j, num_k) == ip(j, num_k)

\* The link variables of the first double loop.
Ux(ov, num_k) == [c \in Grid(num_k) |-> Normalize(ov.x[c])]
Uy(ov, num_k) == [c \in Grid(num_k) |-> Normalize(ov.y[c])]

\* The cells of Ux and Uy read for the plaquette (i, j).
PlaquetteReads(i, j, num_k) ==
    { <<i, j>>, <<ip(i, num_k), j>>, <<i, jp(j, num_k)>> }

\* F[i,j] = np.angle(Ux[i,j]*Uy[ip,j]*np.conjugate(Ux[i,jp])*np.conjugate(Uy[i,j]))
Plaquette(ux, uy, i, j, num_k) ==
    angle(UMul(UMul(UMul(ux[<<i, j>>], uy[<<ip(i, num_k), j>>]),
                    UConj(ux[<<i, jp(j, num_k)>>])),
               UConj(uy[<<i, j>>])))

RECURSIVE FluxSum(_, _, _)
\* np.sum(F) over the first n cells in row-major order; nan absorbs.
FluxSum(F, num_k, n) ==
    IF n = 0 THEN [nan |-> FALSE, val |-> 0]
    ELSE LET rest == FluxSum(F, num_k, n - 1)
             cell == F[<<(n - 1) \div num_k, (n - 1) % num_k>>]
         IN  IF rest.nan \/ cell.nan THEN [nan |-> TRUE, val |-> 0]
             ELSE [nan |-> FALSE, val |-> rest.val + cell.val]

\* berry_curvature(kx_vals, ky_vals, m) for num_k = len(kx_vals): the flux
\* map in quarter turns, the total flux, and chern = total_flux / (2*pi) as
\* the quotient total_flux / PhaseM.  A read outside an array raises.
berry_curvature(ov, num_k) ==
    LET reads == UNION { PlaquetteReads(c[1], c[2], num_k) : c \in Grid(num_k) }
    IN  IF ~(reads \subseteq Grid(num_k))
        THEN [err |-> "IndexError", reads |-> reads]
        ELSE LET F == [c \in Grid(num_k) |->
                          Plaquette(Ux(ov, num_k), Uy(ov, num_k), c[1], c[2], num_k)]
                 total_flux == FluxSum(F, num_k, num_k * num_k)
             IN  [err |-> "none", reads |-> reads, F |-> F,
                  total_flux |-> total_flux,
                  chern |-> [nan |-> total_flux.nan, num |-> total_flux.val, den |-> PhaseM]]

\* The overlaps: zero or of unit modulus.  Zero overlaps are drawn on the
\* one-point grid only.
Overlaps(num_k) ==
    { [abs |-> 1, ph |-> p] : p \in PhaseSteps }
    \cup (IF num_k = 1 THEN { [abs |-> 0, ph |-> 0] } ELSE {})

\* The arguments of a call: the grid size and the two overlap tables.
ChernArg(n, gx, gy) == [fn |-> "berry_curvature", num_k |-> n, ov |-> [x |-> gx, y |-> gy]]

InitChern ==
    \E n \in GridSizes :
        \E gx \in [Grid(n) -> Overlaps(n)], gy \in [Grid(n) -> Overlaps(n)] :
            PureInit({ ChernArg(n, gx, gy) })

\* F_map, chern = berry_curvature(kx_vals, ky_vals, m)
CallBerryCurvature ==
    /\ out[1] = NoCall
    /\ inp.fn = "berry_curvature"
    /\ \E res \in { berry_curvature(inp.ov, inp.num_k) } :
          out' = [out EXCEPT ![1] =
              [op |-> "berry_curvature", num_k |-> inp.num_k, res |-> res]]
    /\ UNCHANGED <<rngStream, rngPos, rho, inp>>

NextChern == CallBerryCurvature

SpecChern == InitChern /\ [][NextChern]_vars

AllOverlapsNonzero ==
    \A c \in Grid(inp.num_k) : inp.ov.x[c].abs # 0 /\ inp.ov.y[c].abs # 0

\* C10: over a periodic num_k x num_k grid with all overlaps nonzero, every
\* grid index read is within [0, num_k), each plaquette flux is the principal
\* value in (-pi, pi] of the phase of Ux[i,j]*Uy[i+1,j]*conj(Ux[i,j+1])*
\* conj(Uy[i,j]), and the sum of the fluxes is an integer multiple of 2*pi,
\* so that the Chern number is an integer.
C10_FluxQuantized ==
    (out[1].op = "berry_curvature" /\ AllOverlapsNonzero)
        => /\ out[1].res.err = "none"
           /\ out[1].res.reads \subseteq Grid(out[1].num_k)
           /\ \A c \in Grid(out[1].num_k) :
                 LET f == out[1].res.F[c]
                     wi == (c[1] + 1) % out[1].num_k
                     wj == (c[2] + 1) % out[1].num_k
                 IN  /\ ~f.nan
                     /\ -PhaseM < 2 * f.val /\ 2 * f.val <= PhaseM
                     /\ (f.val - (inp.ov.x[c].ph + inp.ov.y[<<wi, c[2]>>].ph
                                  - inp.ov.x[<<c[1], wj>>].ph - inp.ov.y[c].ph)) % PhaseM = 0
           /\ ~out[1].res.total_flux.nan
           /\ out[1].res.total_flux.val % PhaseM = 0
           /\ out[1].res.chern.num = out[1].res.total_flux.val
           /\ out[1].res.chern.num % out[1].res.chern.den = 0

\* A call on the 2 x 2 grid with a flux of pi on a plaquette and a nonzero
\* Chern number.
C10_Witness ==
    /\ out[1].op = "berry_curvature"
    /\ AllOverlapsNonzero
    /\ out[1].num_k = 2
    /\ \E c \in Grid(out[1].num_k) : 2 * out[1].res.F[c].val = PhaseM
    /\ out[1].res.chern.num # 0

====
